---- MODULE Spec2Model ----
(***************************************************************************)
(* A model of the dingtalk webhook-robot client (src/src/lib.rs,           *)
(* src/src/msg.rs): the DingTalkMessage builder, the JSON payload that     *)
(* send_message assembles, the DingTalk constructors, generate_signed_url  *)
(* and the send pipeline.                                                  *)
(*                                                                         *)
(* Strings that the code inspects character by character (URLs, tokens,    *)
(* credential strings) are sequences of one-character strings.  Strings    *)
(* the code only copies (titles, texts, mobile numbers) are TLA+ strings.  *)
(* A JSON object is a function from its keys to its values, a JSON array   *)
(* is a sequence.                                                          *)
(***************************************************************************)
EXTENDS Integers, Sequences, FiniteSets, TLC

VARIABLES
    client,     \* the DingTalk value, or NoClient before construction
    lastCall,   \* the last operation called on / for the client, with its input
    signed,     \* result of the last direct generate_signed_url call
    now,        \* the system clock, milliseconds since the epoch
    msg,        \* msg[c]: the DingTalkMessage caller c is building
    log,        \* log[c]: the builder calls made on msg[c], in call order
    calls       \* calls[c]: caller c's send_message call

vars == <<client, lastCall, signed, now, msg, log, calls>>

-----------------------------------------------------------------------------
(* Bounds of the model *)

MaxUrlLen == 3      \* longest base webhook URL drawn
MaxTokLen == 2      \* longest access token / key drawn
MaxBodyLen == 3     \* longest credential-string body drawn (after the prefix)
MaxTime == 2        \* the clock runs from 0 to MaxTime
MaxChain == 3       \* calls in one builder chain, the constructor included
NumTasks == 2       \* concurrent callers sharing the client

-----------------------------------------------------------------------------
(* Character strings *)

RECURSIVE SeqsUpTo(_, _)
SeqsUpTo(S, n) ==
    IF n = 0 THEN {<<>>}
    ELSE LET shorter == SeqsUpTo(S, n - 1)
         IN  shorter \cup {Append(s, x) : s \in {t \in shorter : Len(t) = n - 1}, x \in S}

StartsWith(s, p) == Len(s) >= Len(p) /\ SubSeq(s, 1, Len(p)) = p

EndsWith(s, ch) == Len(s) > 0 /\ s[Len(s)] = ch

Contains(s, ch) == \E i \in 1..Len(s) : s[i] = ch

Drop(s, n) == SubSeq(s, n + 1, Len(s))

\* str::split(ch): the pieces between occurrences of ch, at least one piece
RECURSIVE Split(_, _)
Split(s, ch) ==
    IF ~Contains(s, ch) THEN <<s>>
    ELSE LET i == CHOOSE k \in 1..Len(s) : s[k] = ch /\ \A j \in 1..(k - 1) : s[j] # ch
         IN  <<SubSeq(s, 1, i - 1)>> \o Split(Drop(s, i), ch)

\* format!("{}", n) of an unsigned integer
Digit(d) == <<"0", "1", "2", "3", "4", "5", "6", "7", "8", "9">>[d + 1]

RECURSIVE Decimal(_)
Decimal(n) == IF n < 10 THEN <<Digit(n)>> ELSE Append(Decimal(n \div 10), Digit(n % 10))

\* urlencoding::encode: unreserved characters pass, every other byte is %XX
Reserved == {"?", "&", "=", ":", "/", "+", "%", "\n"}

PercentCode(ch) ==
    CASE ch = "?" -> <<"%", "3", "F">>
      [] ch = "&" -> <<"%", "2", "6">>
      [] ch = "=" -> <<"%", "3", "D">>
      [] ch = ":" -> <<"%", "3", "A">>
      [] ch = "/" -> <<"%", "2", "F">>
      [] ch = "+" -> <<"%", "2", "B">>
      [] ch = "%" -> <<"%", "2", "5">>
      [] ch = "\n" -> <<"%", "0", "A">>

RECURSIVE UrlEncode(_)
UrlEncode(s) ==
    IF s = <<>> THEN <<>>
    ELSE (IF Head(s) \in Reserved THEN PercentCode(Head(s)) ELSE <<Head(s)>>)
         \o UrlEncode(Tail(s))

-----------------------------------------------------------------------------
(* Results *)

Ok(v) == [ok |-> TRUE, val |-> v]
Err(kind, info) == [ok |-> FALSE, kind |-> kind, info |-> info]

-----------------------------------------------------------------------------
(* DingTalk: the client configuration and its constructors *)

DEFAULT_DINGTALK_ROBOT_URL ==
    <<"h", "t", "t", "p", "s", ":", "/", "/", "o", "a", "p", "i", ".", "d", "i", "n",
      "g", "t", "a", "l", "k", ".", "c", "o", "m", "/", "r", "o", "b", "o", "t", "/",
      "s", "e", "n", "d">>

DEFAULT_WECHAT_WORK_ROBOT_URL ==
    <<"h", "t", "t", "p", "s", ":", "/", "/", "q", "y", "a", "p", "i", ".", "w", "e",
      "i", "x", "i", "n", ".", "q", "q", ".", "c", "o", "m", "/", "c", "g", "i", "-",
      "b", "i", "n", "/", "w", "e", "b", "h", "o", "o", "k", "/", "s", "e", "n", "d">>

NoClient == [absent |-> TRUE]

\* #[derive(Default)] with DingTalkType's Default impl
DefaultDingTalk ==
    [dingtalk_type |-> "DingTalk", default_webhook_url |-> <<>>,
     access_token |-> <<>>, sec_token |-> <<>>, direct_url |-> <<>>]

New(access_token, sec_token) ==
    [DefaultDingTalk EXCEPT !.default_webhook_url = DEFAULT_DINGTALK_ROBOT_URL,
                            !.access_token = access_token,
                            !.sec_token = sec_token]

NewWechat(key) ==
    [DefaultDingTalk EXCEPT !.default_webhook_url = DEFAULT_WECHAT_WORK_ROBOT_URL,
                            !.dingtalk_type = "WeChatWork",
                            !.access_token = key]

FromUrl(direct_url) == [DefaultDingTalk EXCEPT !.direct_url = direct_url]

DingtalkPrefix == <<"d", "i", "n", "g", "t", "a", "l", "k", ":">>
WechatworkPrefix == <<"w", "e", "c", "h", "a", "t", "w", "o", "r", "k", ":">>
WecomPrefix == <<"w", "e", "c", "o", "m", ":">>

FromToken(token) ==
    IF StartsWith(token, DingtalkPrefix) THEN
        LET token_and_or_sec == Drop(token, Len(DingtalkPrefix))
            token_and_or_sec_vec == Split(token_and_or_sec, "?")
            access_token == token_and_or_sec_vec[1]
            sec_token == IF Len(token_and_or_sec_vec) >= 2
                         THEN token_and_or_sec_vec[2] ELSE <<>>
        IN  Ok(New(access_token, sec_token))
    ELSE IF StartsWith(token, WechatworkPrefix) THEN
        Ok(NewWechat(Drop(token, Len(WechatworkPrefix))))
    ELSE IF StartsWith(token, WecomPrefix) THEN
        Ok(NewWechat(Drop(token, Len(WecomPrefix))))
    ELSE Err("Tokne format erorr", token)

\* str::to_lowercase on the type strings drawn
ToLowercase(s) ==
    CASE s = "WeChat" -> "wechat"
      [] s = "WECOM" -> "wecom"
      [] OTHER -> s

\* A JSON document: shape "malformed" (not JSON), "nonobject" (JSON, not an
\* object) or "object"; has is the set of keys holding a string.
FromJson(json) ==
    IF json.shape = "malformed" THEN Err("serde_json", "parse")
    ELSE IF json.shape # "object" THEN Err("JSON format erorr", "not an object")
    ELSE
        LET Str(key) == IF key \in json.has THEN json[key] ELSE <<>>
            type_str == ToLowercase(IF "type" \in json.has THEN json.type ELSE "")
            dingtalk_type == IF type_str \in {"wechat", "wechatwork", "wecom"}
                             THEN "WeChatWork" ELSE "DingTalk"
            default_webhook_url ==
                IF "default_webhook_url" \in json.has THEN json.default_webhook_url
                ELSE IF dingtalk_type = "DingTalk" THEN DEFAULT_DINGTALK_ROBOT_URL
                ELSE DEFAULT_WECHAT_WORK_ROBOT_URL
        IN  Ok([dingtalk_type |-> dingtalk_type,
                default_webhook_url |-> default_webhook_url,
                access_token |-> Str("access_token"),
                sec_token |-> Str("sec_token"),
                direct_url |-> Str("direct_url")])

-----------------------------------------------------------------------------
(* generate_signed_url *)

AccessTokenParam == <<"a", "c", "c", "e", "s", "s", "_", "t", "o", "k", "e", "n", "=">>
KeyParam == <<"k", "e", "y", "=">>
TimestampParam == <<"&", "t", "i", "m", "e", "s", "t", "a", "m", "p", "=">>
SignParam == <<"&", "s", "i", "g", "n", "=">>

\* A digest that takes in the key alone
CalcHmacSha256KeyOnly(key, message, hmac_ok) ==
    IF hmac_ok THEN Ok(<<"hmac", key>>) ELSE Err("Hmac error", "InvalidKeyLength")

\* calc_hmac_sha256: the digest is a collision-free function of key and
\* message, kept as one opaque symbol; the HMAC key setup's Result is hmac_ok.
CalcHmacSha256(key, message, hmac_ok) ==
    IF hmac_ok THEN Ok(<<"hmac", key, message>>) ELSE Err("Hmac error", "InvalidKeyLength")

\* base64::encode of a 32-byte digest: 43 characters, here one symbol, and
\* one '=' of padding
Base64Encode(digest) == <<ToString(digest), "=">>

\* A joiner that skips the ends-with-'?' test
JoinerNoEndTest(default_webhook_url) ==
    IF Contains(default_webhook_url, "?") THEN
        (IF ~EndsWith(default_webhook_url, "&") THEN <<"&">> ELSE <<>>)
    ELSE <<"?">>

\* The separator pushed between default_webhook_url and the credential parameter
Joiner(default_webhook_url) ==
    IF EndsWith(default_webhook_url, "?") THEN <<>>
    ELSE IF Contains(default_webhook_url, "?") THEN
        (IF ~EndsWith(default_webhook_url, "&") THEN <<"&">> ELSE <<>>)
    ELSE <<"?">>

CredentialName(dingtalk_type) ==
    IF dingtalk_type = "DingTalk" THEN AccessTokenParam ELSE KeyParam

\* Signature parameters pushed sign first
SignatureParamsSignFirst(timestamp, hmac_sha256) ==
    SignParam \o UrlEncode(hmac_sha256) \o TimestampParam \o timestamp

SignatureParams(timestamp, hmac_sha256) ==
    TimestampParam \o timestamp \o SignParam \o UrlEncode(hmac_sha256)

\* The URL assembled from default_webhook_url; time is SystemTime::now() in
\* milliseconds
AssembleSignedUrl(c, time, hmac_ok) ==
    LET signed_url == c.default_webhook_url \o Joiner(c.default_webhook_url)
                      \o CredentialName(c.dingtalk_type) \o UrlEncode(c.access_token)
    IN  IF c.sec_token # <<>> THEN
            LET timestamp == Decimal(time)
                timestamp_and_secret == timestamp \o <<"\n">> \o c.sec_token
                mac == CalcHmacSha256(c.sec_token, timestamp_and_secret, hmac_ok)
            IN  IF ~mac.ok THEN mac
                ELSE Ok(signed_url \o SignatureParams(timestamp, Base64Encode(mac.val)))
        ELSE Ok(signed_url)

\* generate_signed_url without the direct_url test
GenerateSignedUrlNoDirect(c, time, hmac_ok) == AssembleSignedUrl(c, time, hmac_ok)

GenerateSignedUrl(c, time, hmac_ok) ==
    IF c.direct_url # <<>> THEN Ok(c.direct_url)
    ELSE AssembleSignedUrl(c, time, hmac_ok)

-----------------------------------------------------------------------------
(* DingTalkMessage and its builder *)

NoBtn == [absent |-> TRUE]

\* #[derive(Default)] with the Default impls of msg.rs
DefaultMessage ==
    [message_type |-> "Text",
     text_content |-> "",
     markdown_title |-> "", markdown_content |-> "",
     link_text |-> "", link_title |-> "", link_pic_url |-> "", link_message_url |-> "",
     action_card_title |-> "", action_card_text |-> "",
     action_card_hide_avatar |-> "Show",
     action_card_btn_orientation |-> "Vertical",
     action_card_single_btn |-> NoBtn,
     action_card_btns |-> <<>>,
     feed_card_links |-> <<>>,
     at_all |-> FALSE,
     at_mobiles |-> <<>>]

NewMessage(message_type) == [DefaultMessage EXCEPT !.message_type = message_type]

Text(m, text_content) == [m EXCEPT !.text_content = text_content]

\* A markdown setter that also overwrites the text content
MarkdownIntoText(m, markdown_title, markdown_content) ==
    [m EXCEPT !.markdown_title = markdown_title, !.markdown_content = markdown_content,
              !.text_content = markdown_content]

Markdown(m, markdown_title, markdown_content) ==
    [m EXCEPT !.markdown_title = markdown_title, !.markdown_content = markdown_content]

Link(m, link_title, link_text, link_pic_url, link_message_url) ==
    [m EXCEPT !.link_title = link_title, !.link_text = link_text,
              !.link_pic_url = link_pic_url, !.link_message_url = link_message_url]

NewText(text_content) == Text(NewMessage("Text"), text_content)

NewMarkdown(markdown_title, markdown_content) ==
    Markdown(NewMessage("Markdown"), markdown_title, markdown_content)

NewLink(link_title, link_text, link_pic_url, link_message_url) ==
    Link(NewMessage("Link"), link_title, link_text, link_pic_url, link_message_url)

NewActionCard(title, text) ==
    [NewMessage("ActionCard") EXCEPT !.action_card_title = title,
                                     !.action_card_text = text]

NewFeedCard == NewMessage("FeedCard")

ActionCardShowAvatar(m) == [m EXCEPT !.action_card_hide_avatar = "Show"]
ActionCardHideAvatar(m) == [m EXCEPT !.action_card_hide_avatar = "Hide"]
ActionCardBtnVertical(m) == [m EXCEPT !.action_card_btn_orientation = "Vertical"]
ActionCardBtnLandscape(m) == [m EXCEPT !.action_card_btn_orientation = "Landscape"]

SetActionCardSignleBtn(m, btn) == [m EXCEPT !.action_card_single_btn = btn]

AddActionCardBtn(m, btn) == [m EXCEPT !.action_card_btns = Append(@, btn)]

AddFeedCardLink(m, link) == [m EXCEPT !.feed_card_links = Append(@, link)]

AddFeedCardLinkDetail(m, title, message_url, pic_url) ==
    AddFeedCardLink(m, [title |-> title, message_url |-> message_url, pic_url |-> pic_url])

AtAll(m) == [m EXCEPT !.at_all = TRUE]

\* An at_mobiles that replaces the list instead of pushing onto it
AtMobilesReplace(m, mobiles) == [m EXCEPT !.at_mobiles = mobiles]

AtMobiles(m, mobiles) == [m EXCEPT !.at_mobiles = @ \o mobiles]

-----------------------------------------------------------------------------
(* The JSON payload of send_message *)

JsonInsert(object, key, value) ==
    [k \in DOMAIN object \cup {key} |-> IF k = key THEN value ELSE object[k]]

\* Tags taken from the field names, without the serde renames
MessageTypeTagSnake(message_type) ==
    CASE message_type = "Text" -> "text"
      [] message_type = "Markdown" -> "markdown"
      [] message_type = "Link" -> "link"
      [] message_type = "ActionCard" -> "action_card"
      [] message_type = "FeedCard" -> "feed_card"

\* #[serde(rename = ...)] of DingTalkMessageType
MessageTypeTag(message_type) ==
    CASE message_type = "Text" -> "text"
      [] message_type = "Markdown" -> "markdown"
      [] message_type = "Link" -> "link"
      [] message_type = "ActionCard" -> "actionCard"
      [] message_type = "FeedCard" -> "feedCard"

HideAvatarTag(hide_avatar) == IF hide_avatar = "Hide" THEN "1" ELSE "0"

BtnOrientationTag(btn_orientation) == IF btn_orientation = "Landscape" THEN "1" ELSE "0"

\* serde_json::to_value of the Inner*Message of the message's type
InnerMessage(m) ==
    CASE m.message_type = "Text" ->
            [msgtype |-> MessageTypeTag("Text"),
             text |-> [content |-> m.text_content]]
      [] m.message_type = "Link" ->
            [msgtype |-> MessageTypeTag("Link"),
             link |-> [title |-> m.link_title, text |-> m.link_text,
                       picUrl |-> m.link_pic_url, messageUrl |-> m.link_message_url]]
      [] m.message_type = "Markdown" ->
            [msgtype |-> MessageTypeTag("Markdown"),
             markdown |-> [title |-> m.markdown_title, text |-> m.markdown_content]]
      [] m.message_type = "ActionCard" ->
            [msgtype |-> MessageTypeTag("ActionCard"),
             actionCard |-> [title |-> m.action_card_title, text |-> m.action_card_text,
                             hideAvatar |-> HideAvatarTag(m.action_card_hide_avatar),
                             btnOrientation |->
                                 BtnOrientationTag(m.action_card_btn_orientation)]]
      [] m.message_type = "FeedCard" ->
            [msgtype |-> MessageTypeTag("FeedCard"),
             feedCard |-> [links |->
                 [i \in 1..Len(m.feed_card_links) |->
                     [title |-> m.feed_card_links[i].title,
                      messageURL |-> m.feed_card_links[i].message_url,
                      picURL |-> m.feed_card_links[i].pic_url]]]]

InnerBtns(action_card_btns) ==
    [i \in 1..Len(action_card_btns) |->
        [title |-> action_card_btns[i].title, actionURL |-> action_card_btns[i].action_url]]

\* Buttons written only when the list has entries
WithButtonsSkipEmpty(message_json, m) ==
    IF m.message_type = "ActionCard" THEN
        IF m.action_card_single_btn # NoBtn THEN
            [message_json EXCEPT !.actionCard =
                JsonInsert(JsonInsert(@, "singleTitle", m.action_card_single_btn.title),
                           "singleURL", m.action_card_single_btn.action_url)]
        ELSE IF m.action_card_btns # <<>> THEN
            [message_json EXCEPT !.actionCard =
                JsonInsert(@, "btns", InnerBtns(m.action_card_btns))]
        ELSE message_json
    ELSE message_json

\* The button list tested before the single button
WithButtonsListFirst(message_json, m) ==
    IF m.message_type = "ActionCard" THEN
        IF m.action_card_btns # <<>> \/ m.action_card_single_btn = NoBtn THEN
            [message_json EXCEPT !.actionCard =
                JsonInsert(@, "btns", InnerBtns(m.action_card_btns))]
        ELSE
            [message_json EXCEPT !.actionCard =
                JsonInsert(JsonInsert(@, "singleTitle", m.action_card_single_btn.title),
                           "singleURL", m.action_card_single_btn.action_url)]
    ELSE message_json

\* The ActionCard buttons added to message_json
WithButtons(message_json, m) ==
    IF m.message_type = "ActionCard" THEN
        IF m.action_card_single_btn # NoBtn THEN
            [message_json EXCEPT !.actionCard =
                JsonInsert(JsonInsert(@, "singleTitle", m.action_card_single_btn.title),
                           "singleURL", m.action_card_single_btn.action_url)]
        ELSE
            [message_json EXCEPT !.actionCard =
                JsonInsert(@, "btns", InnerBtns(m.action_card_btns))]
    ELSE message_json

\* The at object added whenever at_mobiles has entries, at_all not tested
WithAtMobilesOnly(message_json, m) ==
    IF m.at_mobiles # <<>> THEN
        JsonInsert(message_json, "at", [atMobiles |-> m.at_mobiles, isAtAll |-> m.at_all])
    ELSE message_json

\* The at object added to message_json
WithAt(message_json, m) ==
    IF m.at_all \/ m.at_mobiles # <<>> THEN
        JsonInsert(message_json, "at", [atMobiles |-> m.at_mobiles, isAtAll |-> m.at_all])
    ELSE message_json

\* The JSON text send_message hands to send, as the document it denotes;
\* ser_ok is the Result of the serde_json calls
MessageJson(m, ser_ok) ==
    IF ser_ok THEN Ok(WithAt(WithButtons(InnerMessage(m), m), m))
    ELSE Err("serde_json", "serialize")

-----------------------------------------------------------------------------
(* send: the HTTP exchange *)

CONTENT_TYPE == "Content-Type"
APPLICATION_JSON_UTF8 == "application/json; charset=utf-8"

NoResult == [absent |-> TRUE]
NoRequest == [absent |-> TRUE]
NoResponse == [kind |-> "none", status |-> 0]

\* A send_message call: where it stands (pc), the HTTP requests it has issued,
\* the request in flight, what the transport answered and what it returned
NoCall(pc) ==
    [pc |-> pc, requests |-> 0, request |-> NoRequest, response |-> NoResponse,
     result |-> NoResult]

Returned(call, result) == [call EXCEPT !.pc = "done", !.request = NoRequest, !.result = result]

\* send up to the await of the POST
Send(call, c, json_message, time, hmac_ok) ==
    LET url == GenerateSignedUrl(c, time, hmac_ok)
    IN  IF ~url.ok THEN Returned(call, url)
        ELSE [call EXCEPT !.pc = "awaiting",
                          !.requests = @ + 1,
                          !.request = [url |-> url.val,
                                       header |-> <<CONTENT_TYPE, APPLICATION_JSON_UTF8>>,
                                       body |-> json_message]]

\* A send that posts again after a failed exchange
SendCompletedRetry(call, response) ==
    IF response.kind = "response" /\ response.status = 200
    THEN Returned([call EXCEPT !.response = response], Ok("unit"))
    ELSE [call EXCEPT !.requests = @ + 1]

\* Any response counted as delivered
SendCompletedAnyStatus(call, response) ==
    IF response.kind = "failure"
    THEN Returned([call EXCEPT !.response = response], Err("Unknown error", "transport"))
    ELSE Returned([call EXCEPT !.response = response], Ok("unit"))

\* send from the answer of the transport on
SendCompleted(call, response) ==
    IF response.kind = "failure"
    THEN Returned([call EXCEPT !.response = response], Err("Unknown error", "transport"))
    ELSE IF response.status = 200
    THEN Returned([call EXCEPT !.response = response], Ok("unit"))
    ELSE Returned([call EXCEPT !.response = response],
                  Err("Unknown status", response.status))

\* send_message up to the await of the POST
SendMessageCall(call, c, m, time, ser_ok, hmac_ok) ==
    LET json == MessageJson(m, ser_ok)
    IN  IF ~json.ok THEN Returned(call, json)
        ELSE Send(call, c, json.val, time, hmac_ok)

-----------------------------------------------------------------------------
(* Inputs drawn *)

UrlChars == {"h", "?", "&"}
BaseUrls == SeqsUpTo(UrlChars, MaxUrlLen)

TokChars == {"k", "?"}
Tokens == SeqsUpTo(TokChars, MaxTokLen)

Secrets == {<<>>, <<"s">>}

DirectUrls == {<<>>, <<"u">>, <<"u", "?">>}

BodyChars == {"a", "?"}
CredentialPrefixes ==
    {DingtalkPrefix, WechatworkPrefix, WecomPrefix, <<>>,
     <<"d", "i", "n", "g", "t", "a", "l", "k">>, <<"w", "e", "c", "o", "m">>}
CredentialStrings ==
    {p \o b : p \in CredentialPrefixes, b \in SeqsUpTo(BodyChars, MaxBodyLen)}

NewUrls == {<<"h">>, <<"h", "?">>}

Statuses == {200, 404}
Responses == [kind : {"response"}, status : Statuses] \cup {[kind |-> "failure", status |-> 0]}

TextArgs == {"hello"}
MarkdownArgs == {<<"mt", "mc">>}
LinkArgs == {<<"lt", "lx", "lp", "lu">>}
CardArgs == {<<"ct", "cx">>}
Buttons == {[title |-> "b1", action_url |-> "u1"], [title |-> "b2", action_url |-> "u2"]}
FeedLinks == {[title |-> "f1", message_url |-> "fm1", pic_url |-> "fp1"]}
FeedLinkDetails == {<<"f2", "fm2", "fp2">>}
MobileLists == {<<>>, <<"m1">>, <<"m2", "m1">>}
MessageTypes == {"Text", "Markdown", "Link", "ActionCard", "FeedCard"}

TypeStrings == {"dingtalk", "WeChat", "wechatwork", "WECOM", "other"}
JsonKeys == {"type", "default_webhook_url", "access_token", "sec_token", "direct_url"}
JsonDocuments ==
    {[shape |-> "malformed"], [shape |-> "nonobject"]}
    \cup [shape : {"object"}, has : SUBSET JsonKeys, type : TypeStrings,
          default_webhook_url : BaseUrls, access_token : Tokens,
          sec_token : Secrets \ {<<>>}, direct_url : DirectUrls \ {<<>>}]

-----------------------------------------------------------------------------
(* Callers *)

Tasks == 1..NumTasks

NoMsg == [absent |-> TRUE]

-----------------------------------------------------------------------------
(* Operations on the client *)

\* The program has made no constructor call yet
Unconstructed == client = NoClient /\ lastCall.op = "none"

\* A constructor returned r
Constructed(op, r) ==
    /\ client' = IF r.ok THEN r.val ELSE NoClient
    /\ lastCall' = op @@ [ok |-> r.ok]
    /\ UNCHANGED <<signed, now, msg, log, calls>>

CallFromToken ==
    /\ Unconstructed
    /\ \E token \in CredentialStrings :
           Constructed([op |-> "from_token", token |-> token], FromToken(token))

CallFromJson ==
    /\ Unconstructed
    /\ \E json \in JsonDocuments : Constructed([op |-> "from_json"], FromJson(json))

CallFromUrl ==
    /\ Unconstructed
    /\ \E direct_url \in DirectUrls :
           Constructed([op |-> "from_url"], Ok(FromUrl(direct_url)))

CallNew ==
    /\ Unconstructed
    /\ \E access_token \in Tokens, sec_token \in Secrets :
           Constructed([op |-> "new"], Ok(New(access_token, sec_token)))

CallNewWechat ==
    /\ Unconstructed
    /\ \E key \in Tokens : Constructed([op |-> "new_wechat"], Ok(NewWechat(key)))

\* A setter that also resets the access token
WithDefaultWebhookUrlAndToken(c, default_webhook_url) ==
    [c EXCEPT !.default_webhook_url = default_webhook_url, !.access_token = <<>>]

WithDefaultWebhookUrl(c, default_webhook_url) ==
    [c EXCEPT !.default_webhook_url = default_webhook_url]

\* &mut self: no send_message future borrows the client
SetDefaultWebhookUrl ==
    /\ client # NoClient
    /\ \A c \in Tasks : calls[c].pc # "awaiting"
    /\ \E default_webhook_url \in NewUrls :
           client' = WithDefaultWebhookUrl(client, default_webhook_url)
    /\ lastCall' = [op |-> "set_default_webhook_url"]
    /\ UNCHANGED <<signed, now, msg, log, calls>>

CallGenerateSignedUrl ==
    /\ client # NoClient
    /\ \E hmac_ok \in BOOLEAN : signed' = GenerateSignedUrl(client, now, hmac_ok)
    /\ lastCall' = [op |-> "generate_signed_url", time |-> now]
    /\ UNCHANGED <<client, now, msg, log, calls>>

\* the system clock advances
Tick ==
    /\ now < MaxTime
    /\ now' = now + 1
    /\ UNCHANGED <<client, lastCall, signed, msg, log, calls>>

-----------------------------------------------------------------------------
(* A caller builds a message *)

\* Caller c starts a builder chain with constructor op, which returns m
Begins(c, op, arg, m) ==
    /\ msg' = [msg EXCEPT ![c] = m]
    /\ log' = [log EXCEPT ![c] = <<[op |-> op, arg |-> arg]>>]
    /\ UNCHANGED <<client, lastCall, signed, now, calls>>

\* Caller c chains setter op, which returns m
Chains(c, op, arg, m) ==
    /\ msg' = [msg EXCEPT ![c] = m]
    /\ log' = [log EXCEPT ![c] = Append(@, [op |-> op, arg |-> arg])]
    /\ UNCHANGED <<client, lastCall, signed, now, calls>>

CanBegin(c) == calls[c].pc = "idle" /\ msg[c] = NoMsg /\ log[c] = <<>>

CanChain(c) == calls[c].pc = "idle" /\ msg[c] # NoMsg /\ Len(log[c]) < MaxChain

CallNewText(c) ==
    /\ CanBegin(c)
    /\ \E t \in TextArgs : Begins(c, "new_text", t, NewText(t))

CallNewMarkdown(c) ==
    /\ CanBegin(c)
    /\ \E a \in MarkdownArgs : Begins(c, "new_markdown", a, NewMarkdown(a[1], a[2]))

CallNewLink(c) ==
    /\ CanBegin(c)
    /\ \E a \in LinkArgs : Begins(c, "new_link", a, NewLink(a[1], a[2], a[3], a[4]))

CallNewActionCard(c) ==
    /\ CanBegin(c)
    /\ \E a \in CardArgs : Begins(c, "new_action_card", a, NewActionCard(a[1], a[2]))

CallNewFeedCard(c) ==
    /\ CanBegin(c)
    /\ Begins(c, "new_feed_card", "", NewFeedCard)

CallNewMessage(c) ==
    /\ CanBegin(c)
    /\ \E t \in MessageTypes : Begins(c, "new", t, NewMessage(t))

CallText(c) ==
    /\ CanChain(c)
    /\ \E t \in TextArgs : Chains(c, "text", t, Text(msg[c], t))

CallMarkdown(c) ==
    /\ CanChain(c)
    /\ \E a \in MarkdownArgs : Chains(c, "markdown", a, Markdown(msg[c], a[1], a[2]))

CallLink(c) ==
    /\ CanChain(c)
    /\ \E a \in LinkArgs : Chains(c, "link", a, Link(msg[c], a[1], a[2], a[3], a[4]))

CallActionCardShowAvatar(c) ==
    /\ CanChain(c)
    /\ Chains(c, "action_card_show_avatar", "", ActionCardShowAvatar(msg[c]))

CallActionCardHideAvatar(c) ==
    /\ CanChain(c)
    /\ Chains(c, "action_card_hide_avatar", "", ActionCardHideAvatar(msg[c]))

CallActionCardBtnVertical(c) ==
    /\ CanChain(c)
    /\ Chains(c, "action_card_btn_vertical", "", ActionCardBtnVertical(msg[c]))

CallActionCardBtnLandscape(c) ==
    /\ CanChain(c)
    /\ Chains(c, "action_card_btn_landscape", "", ActionCardBtnLandscape(msg[c]))

CallSetActionCardSignleBtn(c) ==
    /\ CanChain(c)
    /\ \E btn \in Buttons :
           Chains(c, "set_action_card_signle_btn", btn, SetActionCardSignleBtn(msg[c], btn))

CallAddActionCardBtn(c) ==
    /\ CanChain(c)
    /\ \E btn \in Buttons :
           Chains(c, "add_action_card_btn", btn, AddActionCardBtn(msg[c], btn))

CallAddFeedCardLink(c) ==
    /\ CanChain(c)
    /\ \E link \in FeedLinks :
           Chains(c, "add_feed_card_link", link, AddFeedCardLink(msg[c], link))

CallAddFeedCardLinkDetail(c) ==
    /\ CanChain(c)
    /\ \E a \in FeedLinkDetails :
           Chains(c, "add_feed_card_link_detail", a,
                  AddFeedCardLinkDetail(msg[c], a[1], a[2], a[3]))

CallAtAll(c) ==
    /\ CanChain(c)
    /\ Chains(c, "at_all", "", AtAll(msg[c]))

CallAtMobiles(c) ==
    /\ CanChain(c)
    /\ \E mobiles \in MobileLists :
           Chains(c, "at_mobiles", mobiles, AtMobiles(msg[c], mobiles))

-----------------------------------------------------------------------------
(* A caller sends *)

\* Caller c calls send_message(m) and runs to its first await or to its return
Sends(c, m) ==
    /\ \E ser_ok \in BOOLEAN, hmac_ok \in BOOLEAN :
           calls' = [calls EXCEPT ![c] =
                        SendMessageCall(NoCall("idle"), client, m, now, ser_ok, hmac_ok)]
    /\ msg' = [msg EXCEPT ![c] = NoMsg]
    /\ UNCHANGED <<client, lastCall, signed, now>>

\* send_message takes the message the caller built
CallSendMessage(c) ==
    /\ client # NoClient
    /\ calls[c].pc = "idle"
    /\ msg[c] # NoMsg
    /\ Sends(c, msg[c])
    /\ UNCHANGED log

CallSendText(c) ==
    /\ client # NoClient
    /\ CanBegin(c)
    /\ \E t \in TextArgs :
           /\ Sends(c, NewText(t))
           /\ log' = [log EXCEPT ![c] = <<[op |-> "new_text", arg |-> t]>>]

CallSendMarkdown(c) ==
    /\ client # NoClient
    /\ CanBegin(c)
    /\ \E a \in MarkdownArgs :
           /\ Sends(c, NewMarkdown(a[1], a[2]))
           /\ log' = [log EXCEPT ![c] = <<[op |-> "new_markdown", arg |-> a]>>]

CallSendLink(c) ==
    /\ client # NoClient
    /\ CanBegin(c)
    /\ \E a \in LinkArgs :
           /\ Sends(c, NewLink(a[1], a[2], a[3], a[4]))
           /\ log' = [log EXCEPT ![c] = <<[op |-> "new_link", arg |-> a]>>]

\* The transport answers caller c's request and send returns
Respond(c) ==
    /\ calls[c].pc = "awaiting"
    /\ \E response \in Responses :
           calls' = [calls EXCEPT ![c] = SendCompleted(@, response)]
    /\ UNCHANGED <<client, lastCall, signed, now, msg, log>>

\* Caller c takes the result and goes on
Return(c) ==
    /\ calls[c].pc = "done"
    /\ calls' = [calls EXCEPT ![c] = NoCall("idle")]
    /\ log' = [log EXCEPT ![c] = <<>>]
    /\ UNCHANGED <<client, lastCall, signed, now, msg>>

-----------------------------------------------------------------------------
(* Construction and URL signing *)

InitUrl ==
    /\ client = NoClient
    /\ lastCall = [op |-> "none"]
    /\ signed = NoResult
    /\ now = 0
    /\ msg = [c \in Tasks |-> NoMsg]
    /\ log = [c \in Tasks |-> <<>>]
    /\ calls = [c \in Tasks |-> NoCall("off")]

NextUrl ==
    \/ CallFromToken
    \/ CallFromJson
    \/ CallFromUrl
    \/ CallNew
    \/ CallNewWechat
    \/ CallGenerateSignedUrl
    \/ Tick

SpecUrl == InitUrl /\ [][NextUrl]_vars

-----------------------------------------------------------------------------
(* One caller builds messages and sends them *)

BuilderClients == {New(<<"k">>, <<>>)}

InitMsg ==
    /\ client \in BuilderClients
    /\ lastCall = [op |-> "new", ok |-> TRUE]
    /\ signed = NoResult
    /\ now = 0
    /\ msg = [c \in Tasks |-> NoMsg]
    /\ log = [c \in Tasks |-> <<>>]
    /\ calls = [c \in Tasks |-> NoCall(IF c = 1 THEN "idle" ELSE "off")]

NextMsg ==
    \E c \in Tasks :
        \/ CallNewText(c)
        \/ CallNewMarkdown(c)
        \/ CallNewLink(c)
        \/ CallNewActionCard(c)
        \/ CallNewFeedCard(c)
        \/ CallNewMessage(c)
        \/ CallText(c)
        \/ CallMarkdown(c)
        \/ CallLink(c)
        \/ CallActionCardShowAvatar(c)
        \/ CallActionCardHideAvatar(c)
        \/ CallActionCardBtnVertical(c)
        \/ CallActionCardBtnLandscape(c)
        \/ CallSetActionCardSignleBtn(c)
        \/ CallAddActionCardBtn(c)
        \/ CallAddFeedCardLink(c)
        \/ CallAddFeedCardLinkDetail(c)
        \/ CallAtAll(c)
        \/ CallAtMobiles(c)
        \/ CallSendMessage(c)
        \/ Respond(c)
        \/ Return(c)

SpecMsg == InitMsg /\ [][NextMsg]_vars

-----------------------------------------------------------------------------
(* Concurrent callers send through one client *)

SenderClients ==
    {New(<<"k">>, <<>>), New(<<"k">>, <<"s">>), NewWechat(<<"k">>), FromUrl(<<"u">>)}

Init ==
    /\ client \in SenderClients
    /\ lastCall = [op |-> "new", ok |-> TRUE]
    /\ signed = NoResult
    /\ now = 0
    /\ msg = [c \in Tasks |-> NoMsg]
    /\ log = [c \in Tasks |-> <<>>]
    /\ calls = [c \in Tasks |-> NoCall("idle")]

Next ==
    \/ \E c \in Tasks :
        \/ CallSendText(c)
        \/ CallSendMarkdown(c)
        \/ CallSendLink(c)
        \/ Respond(c)
        \/ Return(c)
    \/ SetDefaultWebhookUrl
    \/ Tick

Spec == Init /\ [][Next]_vars

-----------------------------------------------------------------------------
(* Properties of generate_signed_url and from_token *)

HasSub(s, sub) == \E i \in 1..(Len(s) - Len(sub) + 1) : SubSeq(s, i, i + Len(sub) - 1) = sub

SignedDirectly == lastCall.op = "generate_signed_url"

\* C4: a client whose direct URL is set gets exactly that URL back from
\* generate_signed_url, whatever its provider kind, base URL, token and secret.
DirectUrlVerbatim ==
    (SignedDirectly /\ client.direct_url # <<>>) => signed = Ok(client.direct_url)

DirectUrlVerbatimWitness ==
    /\ SignedDirectly
    /\ client.direct_url # <<>>
    /\ client.dingtalk_type = "WeChatWork"
    /\ client.sec_token # <<>>
    /\ client.access_token # <<>>
    /\ client.default_webhook_url \in BaseUrls \ {<<>>}
    /\ signed = Ok(client.direct_url)

\* C5: with no direct URL, what stands between the base URL and the
\* credential parameter is nothing when the base URL ends with '?', one '&'
\* when it contains '?' and ends with neither '?' nor '&', one '?' when it
\* contains no '?'; the parameter always follows a separator and the joiner
\* never repeats one the base URL already ends with.
JoinerRule ==
    (SignedDirectly /\ client.direct_url = <<>> /\ signed.ok) =>
        LET base == client.default_webhook_url
            name == IF client.dingtalk_type = "DingTalk"
                    THEN AccessTokenParam ELSE KeyParam
        IN  \E j \in {<<>>, <<"&">>, <<"?">>} :
                /\ StartsWith(signed.val, base \o j \o name)
                /\ EndsWith(base, "?") => j = <<>>
                /\ (Contains(base, "?") /\ ~EndsWith(base, "?") /\ ~EndsWith(base, "&"))
                       => j = <<"&">>
                /\ ~Contains(base, "?") => j = <<"?">>
                /\ EndsWith(base \o j, "?") \/ EndsWith(base \o j, "&")
                /\ (Contains(base, "?") /\ (EndsWith(base, "?") \/ EndsWith(base, "&")))
                       => j = <<>>

JoinerRuleWitness ==
    /\ SignedDirectly
    /\ client.direct_url = <<>>
    /\ signed.ok
    /\ client.default_webhook_url = <<"h", "?", "h">>
    /\ client.dingtalk_type = "WeChatWork"
    /\ StartsWith(signed.val, <<"h", "?", "h", "&", "k", "e", "y", "=">>)

\* C6: with no direct URL, the returned URL is the base URL, the joiner and
\* the credential parameter, followed by "&timestamp=<ms>&sign=<sign>" exactly
\* when the secret is non-empty, for both provider kinds.
SignedIffSecret ==
    (SignedDirectly /\ client.direct_url = <<>> /\ signed.ok) =>
        LET url == signed.val
            unsigned == client.default_webhook_url \o Joiner(client.default_webhook_url)
                        \o CredentialName(client.dingtalk_type)
                        \o UrlEncode(client.access_token)
            rest == Drop(url, Len(unsigned))
            head == TimestampParam \o Decimal(lastCall.time) \o SignParam
        IN  /\ StartsWith(url, unsigned)
            /\ client.sec_token = <<>> => url = unsigned
            /\ client.sec_token # <<>> =>
                   /\ StartsWith(rest, head)
                   /\ Len(rest) > Len(head)
                   /\ ~Contains(Drop(rest, Len(head)), "&")
            /\ HasSub(url, Tail(TimestampParam)) <=> client.sec_token # <<>>
            /\ HasSub(url, Tail(SignParam)) <=> client.sec_token # <<>>

SignedIffSecretWitness ==
    /\ SignedDirectly
    /\ client.direct_url = <<>>
    /\ signed.ok
    /\ client.sec_token # <<>>
    /\ client.dingtalk_type = "WeChatWork"
    /\ lastCall.time > 0
    /\ HasSub(signed.val, TimestampParam \o Decimal(lastCall.time) \o SignParam)

\* C7: from_token takes "dingtalk:<t>?<s>" to a DingTalk client with access
\* token <t> and secret <s>, "dingtalk:<t>" to secret "", "wechatwork:<k>" and
\* "wecom:<k>" to a WeChatWork client with access token <k>, and returns an
\* error for a string with none of the three prefixes.
FromTokenMapping ==
    lastCall.op = "from_token" =>
        LET token == lastCall.token
            Strs == SeqsUpTo(BodyChars, Len(token))
        IN  /\ \A t \in {x \in Strs : ~Contains(x, "?")}, s \in Strs :
                   token = DingtalkPrefix \o t \o <<"?">> \o s
                       => lastCall.ok /\ client = New(t, s)
            /\ \A t \in {x \in Strs : ~Contains(x, "?")} :
                   token = DingtalkPrefix \o t => lastCall.ok /\ client = New(t, <<>>)
            /\ \A k \in Strs :
                   (token = WechatworkPrefix \o k \/ token = WecomPrefix \o k)
                       => lastCall.ok /\ client = NewWechat(k)
            /\ (\A p \in {DingtalkPrefix, WechatworkPrefix, WecomPrefix} :
                    ~StartsWith(token, p))
                   => ~lastCall.ok /\ client = NoClient


-----------------------------------------------------------------------------
(* Properties of the payload *)

InFlight(c) == calls[c].pc = "awaiting"

Body(c) == calls[c].request.body

Called(l, op) == \E i \in 1..Len(l) : l[i].op = op

\* the argument of the last call of op in chain l
LastArg(l, op) ==
    l[CHOOSE i \in 1..Len(l) :
          l[i].op = op /\ \A j \in (i + 1)..Len(l) : l[j].op # op].arg

\* the message type a builder chain starts with
ChainType(l) ==
    CASE l[1].op = "new" -> l[1].arg
      [] l[1].op = "new_text" -> "Text"
      [] l[1].op = "new_markdown" -> "Markdown"
      [] l[1].op = "new_link" -> "Link"
      [] l[1].op = "new_action_card" -> "ActionCard"
      [] l[1].op = "new_feed_card" -> "FeedCard"

\* the mobiles handed to the at_mobiles calls of chain l, in call order
RECURSIVE MobilesGiven(_)
MobilesGiven(l) ==
    IF l = <<>> THEN <<>>
    ELSE (IF Head(l).op = "at_mobiles" THEN Head(l).arg ELSE <<>>) \o MobilesGiven(Tail(l))

NoButtonChain(c) ==
    /\ InFlight(c)
    /\ ChainType(log[c]) = "ActionCard"
    /\ ~Called(log[c], "set_action_card_signle_btn")
    /\ ~Called(log[c], "add_action_card_btn")

\* C1 as claimed: an ActionCard with no single button and an empty button list
\* is sent with none of singleTitle, singleURL and btns under actionCard.
NoButtonsOmitsAll ==
    \A c \in Tasks :
        NoButtonChain(c) =>
            {"singleTitle", "singleURL", "btns"} \cap DOMAIN Body(c).actionCard = {}

\* C1 as amended: an ActionCard with no single button and an empty button list
\* is sent without singleTitle and singleURL and with btns, an empty array.
NoButtonsEmptyBtns ==
    \A c \in Tasks :
        NoButtonChain(c) =>
            /\ {"singleTitle", "singleURL"} \cap DOMAIN Body(c).actionCard = {}
            /\ "btns" \in DOMAIN Body(c).actionCard
            /\ Body(c).actionCard.btns = <<>>

NoButtonsWitness ==
    \E c \in Tasks :
        /\ NoButtonChain(c)
        /\ log[c][1].op = "new_action_card"
        /\ Body(c).msgtype = "actionCard"

\* C2: once set_action_card_signle_btn was called on an ActionCard, the payload
\* carries singleTitle and singleURL of the last button so set and no btns,
\* whatever add_action_card_btn calls came before or after.
SingleBtnSuppressesBtns ==
    \A c \in Tasks :
        (/\ InFlight(c)
         /\ ChainType(log[c]) = "ActionCard"
         /\ Called(log[c], "set_action_card_signle_btn")) =>
            LET btn == LastArg(log[c], "set_action_card_signle_btn")
                card == Body(c).actionCard
            IN  /\ {"singleTitle", "singleURL"} \subseteq DOMAIN card
                /\ card.singleTitle = btn.title
                /\ card.singleURL = btn.action_url
                /\ "btns" \notin DOMAIN card

SingleBtnSuppressesBtnsWitness ==
    \E c \in Tasks :
        /\ InFlight(c)
        /\ ChainType(log[c]) = "ActionCard"
        /\ Len(log[c]) = 3
        /\ log[c][2].op = "add_action_card_btn"
        /\ log[c][3].op = "set_action_card_signle_btn"
        /\ Body(c).actionCard.singleTitle = log[c][3].arg.title

\* C3: for every message type and builder chain, the payload has a top-level
\* at object exactly when at_all was called or the at_mobiles calls handed
\* over at least one mobile.
AtIffMentioned ==
    \A c \in Tasks :
        InFlight(c) =>
            ("at" \in DOMAIN Body(c)
                <=> (Called(log[c], "at_all") \/ MobilesGiven(log[c]) # <<>>))

AtIffMentionedWitness ==
    \E c \in Tasks :
        /\ InFlight(c)
        /\ ChainType(log[c]) = "FeedCard"
        /\ Called(log[c], "at_all")
        /\ MobilesGiven(log[c]) = <<>>
        /\ Called(log[c], "at_mobiles")
        /\ "at" \in DOMAIN Body(c)

-----------------------------------------------------------------------------
(* Properties of the send pipeline *)

\* C8: send returns success exactly when the transport answered with status
\* 200; another status gives an error carrying that status, a transport
\* failure gives an error.
SuccessIffStatus200 ==
    \A c \in Tasks :
        calls[c].pc = "done" =>
            LET response == calls[c].response
                result == calls[c].result
            IN  /\ result.ok <=> (response.kind = "response" /\ response.status = 200)
                /\ (response.kind = "response" /\ response.status # 200)
                       => (/\ ~result.ok
                           /\ result.kind = "Unknown status"
                           /\ result.info = response.status)
                /\ response.kind = "failure" => ~result.ok

SuccessIffStatus200Witness ==
    \E c, d \in Tasks :
        /\ calls[c].pc = "done"
        /\ calls[c].response = [kind |-> "response", status |-> 404]
        /\ calls[c].result = Err("Unknown status", 404)
        /\ calls[d].pc = "done"
        /\ calls[d].response.status = 200
        /\ calls[d].result.ok

\* C9: a send_message call issues at most one HTTP request: none when it
\* returns an error of serialization or of URL signing, one otherwise, and
\* none after the transport has answered.
AtMostOneRequest ==
    \A c \in Tasks :
        /\ calls[c].requests <= 1
        /\ InFlight(c) => calls[c].requests = 1
        /\ (calls[c].pc = "done" /\ calls[c].response.kind = "none")
               => (/\ calls[c].requests = 0
                   /\ ~calls[c].result.ok
                   /\ calls[c].result.kind \in {"serde_json", "Hmac error"})
        /\ (calls[c].pc = "done" /\ calls[c].response.kind # "none")
               => calls[c].requests = 1

AtMostOneRequestWitness ==
    \E c, d \in Tasks :
        /\ calls[c].pc = "done"
        /\ ~calls[c].result.ok
        /\ calls[c].result.kind = "Hmac error"
        /\ calls[c].requests = 0
        /\ calls[d].pc = "done"
        /\ calls[d].response.kind = "failure"
        /\ calls[d].requests = 1

\* C10 as claimed: no operation on a constructed client changes its
\* configuration.
ConfigNeverChanges == [][client' = client]_vars

\* C10 as amended: the only operation that changes the configuration is
\* set_default_webhook_url, which replaces the base webhook URL and nothing
\* else while no send borrows the client; so the requests in flight of a
\* client with no direct URL and an empty secret are all assembled from the
\* configuration the client has.
ConfigChangesOnlyBySetter ==
    /\ [][client' # client =>
             /\ lastCall'.op = "set_default_webhook_url"
             /\ \A c \in Tasks : ~InFlight(c)
             /\ \A f \in DOMAIN client \ {"default_webhook_url"} : client'[f] = client[f]]_vars
    /\ [](\A c \in Tasks :
             (InFlight(c) /\ client.direct_url = <<>> /\ client.sec_token = <<>>)
                 => calls[c].request.url = AssembleSignedUrl(client, 0, TRUE).val)

ConfigChangesOnlyBySetterWitness ==
    \E c \in Tasks :
        /\ lastCall.op = "set_default_webhook_url"
        /\ client.default_webhook_url \in NewUrls
        /\ client.sec_token = <<>>
        /\ InFlight(c)
        /\ StartsWith(calls[c].request.url, client.default_webhook_url)

-----------------------------------------------------------------------------
(* Properties of the signature of concurrent sends *)

\* where parameter name starts in url
ParamAt(url, name) ==
    CHOOSE i \in 1..Len(url) : SubSeq(url, i, i + Len(name) - 1) = name

\* the timestamp and the sign a signed URL carries
TimestampOf(url) ==
    SubSeq(url, ParamAt(url, TimestampParam) + Len(TimestampParam),
           ParamAt(url, SignParam) - 1)

SignOf(url) == Drop(url, ParamAt(url, SignParam) + Len(SignParam) - 1)

\* callers c and d both have a signed request in flight
ConcurrentSigned(c, d) ==
    /\ c # d
    /\ InFlight(c)
    /\ InFlight(d)
    /\ client.direct_url = <<>>
    /\ client.sec_token # <<>>

\* C11 as claimed: two concurrent sends on a client with a secret carry
\* distinct timestamps and distinct signatures.
ConcurrentSendsDiffer ==
    \A c, d \in Tasks :
        ConcurrentSigned(c, d) =>
            /\ TimestampOf(calls[c].request.url) # TimestampOf(calls[d].request.url)
            /\ SignOf(calls[c].request.url) # SignOf(calls[d].request.url)

\* C11 as amended: two concurrent sends on a client with a secret carry the
\* same signature exactly when they carry the same timestamp, which they do
\* when both read the clock within one millisecond.
SignDiffersWithTimestamp ==
    \A c, d \in Tasks :
        ConcurrentSigned(c, d) =>
            LET u == calls[c].request.url
                v == calls[d].request.url
            IN  /\ HasSub(u, TimestampParam) /\ HasSub(u, SignParam)
                /\ HasSub(v, TimestampParam) /\ HasSub(v, SignParam)
                /\ TimestampOf(u) \in {Decimal(t) : t \in 0..now}
                /\ (TimestampOf(u) = TimestampOf(v)) <=> (SignOf(u) = SignOf(v))

SignDiffersWithTimestampWitness ==
    \E c, d \in Tasks :
        /\ ConcurrentSigned(c, d)
        /\ TimestampOf(calls[c].request.url) = Decimal(0)
        /\ TimestampOf(calls[d].request.url) = Decimal(now)
        /\ now > 0
        /\ SignOf(calls[c].request.url) # SignOf(calls[d].request.url)

-----------------------------------------------------------------------------
(* Properties of the payload's shape *)

CalledAny(l, ops) == \E i \in 1..Len(l) : l[i].op \in ops

\* the last call of chain l among ops
LastOf(l, ops) ==
    l[CHOOSE i \in 1..Len(l) :
          l[i].op \in ops /\ \A j \in (i + 1)..Len(l) : l[j].op \notin ops]

\* the feed card links handed to chain l, in call order, as they go on the wire
RECURSIVE LinksGiven(_)
LinksGiven(l) ==
    IF l = <<>> THEN <<>>
    ELSE (CASE Head(l).op = "add_feed_card_link" ->
                  <<[title |-> Head(l).arg.title, messageURL |-> Head(l).arg.message_url,
                     picURL |-> Head(l).arg.pic_url]>>
            [] Head(l).op = "add_feed_card_link_detail" ->
                  <<[title |-> Head(l).arg[1], messageURL |-> Head(l).arg[2],
                     picURL |-> Head(l).arg[3]]>>
            [] OTHER -> <<>>)
         \o LinksGiven(Tail(l))

\* the wire tag of each message type
WireTag(type) ==
    CASE type = "Text" -> "text"
      [] type = "Markdown" -> "markdown"
      [] type = "Link" -> "link"
      [] type = "ActionCard" -> "actionCard"
      [] type = "FeedCard" -> "feedCard"

\* the object under the tag holds the fields chain l gave the message's type
HoldsVariantFields(object, l) ==
    CASE ChainType(l) = "Text" ->
            object = [content |-> IF CalledAny(l, {"new_text", "text"})
                                  THEN LastOf(l, {"new_text", "text"}).arg ELSE ""]
      [] ChainType(l) = "Markdown" ->
            LET a == IF CalledAny(l, {"new_markdown", "markdown"})
                     THEN LastOf(l, {"new_markdown", "markdown"}).arg ELSE <<"", "">>
            IN  object = [title |-> a[1], text |-> a[2]]
      [] ChainType(l) = "Link" ->
            LET a == IF CalledAny(l, {"new_link", "link"})
                     THEN LastOf(l, {"new_link", "link"}).arg ELSE <<"", "", "", "">>
            IN  object = [title |-> a[1], text |-> a[2], picUrl |-> a[3],
                          messageUrl |-> a[4]]
      [] ChainType(l) = "ActionCard" ->
            LET a == IF l[1].op = "new_action_card" THEN l[1].arg ELSE <<"", "">>
                avatar == {"action_card_show_avatar", "action_card_hide_avatar"}
                orientation == {"action_card_btn_vertical", "action_card_btn_landscape"}
            IN  /\ {"title", "text", "hideAvatar", "btnOrientation"} \subseteq DOMAIN object
                /\ DOMAIN object \subseteq {"title", "text", "hideAvatar", "btnOrientation",
                                            "singleTitle", "singleURL", "btns"}
                /\ object.title = a[1]
                /\ object.text = a[2]
                /\ object.hideAvatar =
                       (IF /\ CalledAny(l, avatar)
                           /\ LastOf(l, avatar).op = "action_card_hide_avatar"
                        THEN "1" ELSE "0")
                /\ object.btnOrientation =
                       (IF /\ CalledAny(l, orientation)
                           /\ LastOf(l, orientation).op = "action_card_btn_landscape"
                        THEN "1" ELSE "0")
      [] ChainType(l) = "FeedCard" ->
            object = [links |-> LinksGiven(l)]

\* C12: for every message type, the payload's msgtype is the type's tag and,
\* msgtype and the optional at aside, the payload has one top-level key, that
\* tag, holding the fields of that type.
OneKeyUnderTag ==
    \A c \in Tasks :
        InFlight(c) =>
            LET tag == WireTag(ChainType(log[c]))
            IN  /\ Body(c).msgtype = tag
                /\ DOMAIN Body(c) \ {"msgtype", "at"} = {tag}
                /\ HoldsVariantFields(Body(c)[tag], log[c])

OneKeyUnderTagWitness ==
    \E c \in Tasks :
        /\ InFlight(c)
        /\ ChainType(log[c]) = "ActionCard"
        /\ Called(log[c], "action_card_hide_avatar")
        /\ Called(log[c], "at_all")
        /\ DOMAIN Body(c) = {"msgtype", "actionCard", "at"}
        /\ Body(c).actionCard.hideAvatar = "1"

-----------------------------------------------------------------------------
(* Properties of setters of another message type *)

\* the message type whose fields setter op writes; at_all and at_mobiles
\* belong to every type
SetterType(op) ==
    CASE op = "text" -> "Text"
      [] op = "markdown" -> "Markdown"
      [] op = "link" -> "Link"
      [] op \in {"action_card_show_avatar", "action_card_hide_avatar",
                 "action_card_btn_vertical", "action_card_btn_landscape",
                 "set_action_card_signle_btn", "add_action_card_btn"} -> "ActionCard"
      [] op \in {"add_feed_card_link", "add_feed_card_link_detail"} -> "FeedCard"
      [] op \in {"at_all", "at_mobiles"} -> "Common"

\* task c's step is a setter call on its message, for another type than the
\* message's
ForeignSetterStep(c) ==
    /\ Len(log[c]) >= 1
    /\ Len(log'[c]) = Len(log[c]) + 1
    /\ SetterType(log'[c][Len(log'[c])].op) \notin {msg[c].message_type, "Common"}

\* C13: a setter of another message type than the message's own leaves the
\* message's type unchanged and its payload the same as without the call.
ForeignSetterInert ==
    [][\A c \in Tasks :
          ForeignSetterStep(c) =>
              /\ msg'[c].message_type = msg[c].message_type
              /\ MessageJson(msg'[c], TRUE) = MessageJson(msg[c], TRUE)]_vars

ForeignSetterInertWitness ==
    \E c \in Tasks :
        /\ InFlight(c)
        /\ log[c][1] = [op |-> "new_text", arg |-> "hello"]
        /\ \E i \in 2..Len(log[c]) :
               log[c][i].op \in {"markdown", "link", "set_action_card_signle_btn",
                                 "add_action_card_btn", "add_feed_card_link"}
        /\ ~Called(log[c], "text")
        /\ ~Called(log[c], "at_all")
        /\ MobilesGiven(log[c]) = <<>>
        /\ Body(c) = [msgtype |-> "text", text |-> [content |-> "hello"]]

-----------------------------------------------------------------------------
(* Properties of the mentioned mobiles *)

\* C14: the payload's atMobiles is the concatenation, in call order and
\* element order, of the arguments of all at_mobiles calls on the message,
\* duplicates kept.
AtMobilesAccumulate ==
    \A c \in Tasks :
        (InFlight(c) /\ "at" \in DOMAIN Body(c)) =>
            Body(c).at.atMobiles = MobilesGiven(log[c])

AtMobilesAccumulateWitness ==
    \E c \in Tasks :
        /\ InFlight(c)
        /\ Len(log[c]) = 3
        /\ log[c][2] = [op |-> "at_mobiles", arg |-> <<"m1">>]
        /\ log[c][3] = [op |-> "at_mobiles", arg |-> <<"m2", "m1">>]
        /\ Body(c).at.atMobiles = <<"m1", "m2", "m1">>

====
